---- MODULE Spec2Model ----
(***************************************************************************)
(* Model of the spectrogram preprocessing scripts:                         *)
(*   AMF.py          AMF(spec, radius)            directional median filter*)
(*   one_day.py      circular_sort(files, offset) file ordering            *)
(*   compute_snr.py  compute_snr(spectrogram, burst_labels)  burst mask    *)
(*                                                                         *)
(* Arithmetic.  The source works in float32.  The model computes the same  *)
(* expressions in exact real arithmetic.  The input pixels are integers,   *)
(* so the Sobel gradient (Gx, Gy) of a pixel is a pair of integers, the    *)
(* direction (cos, sin) of arctan2(Gy, Gx) is (Gx, Gy) / sqrt(Gx^2 + Gy^2),*)
(* and every bilinear sample taken for that pixel is a number of the form  *)
(* (u + w * sqrt(rad)) / den with integers u, w, rad, den.  Directions are *)
(* records [num, rad] for num / sqrt(rad); samples and output pixels are   *)
(* records [u, w, rad, den].  The only difference from the source is the   *)
(* rounding of float32 operations.                                         *)
(***************************************************************************)
EXTENDS Integers, Sequences, FiniteSets, TLC

\* ------------------------------------------------------------------ bounds
MaxRows == 3
MaxCols == 2
MaxRadius == 2
MaxBright == 2
MaxFiles == 3
MaxTimes == 4
MaxLabels == 2

\* Intensities of the input pixels: a background level and its complement.
PixelValues == {0, 1}

\* ------------------------------------------------------------- arithmetic
Abs(x) == IF x < 0 THEN -x ELSE x

Sign(x) == IF x < 0 THEN -1 ELSE IF x > 0 THEN 1 ELSE 0

Min(a, b) == IF a <= b THEN a ELSE b

Max(a, b) == IF a >= b THEN a ELSE b

RECURSIVE Gcd(_, _)
\* greatest common divisor of a, b >= 0
Gcd(a, b) == IF b = 0 THEN a ELSE Gcd(b, a % b)

\* n is the square of an integer
IsSquare(n) == \E s \in 0..n : s * s = n

\* the integer square root of a square
RootOf(n) == CHOOSE s \in 0..n : s * s = n

\* floor(a / sqrt(n)) for an integer a and n >= 1
FloorDivSqrt(a, n) ==
    IF a >= 0
    THEN CHOOSE q \in 0..a : q * q * n <= a * a /\ (q + 1) * (q + 1) * n > a * a
    ELSE -(CHOOSE q \in 1..(-a) :
               q * q * n >= a * a /\ (q - 1) * (q - 1) * n < a * a)

\* the sign of p + q * sqrt(n), n >= 1
SignSurd(p, q, n) ==
    IF p >= 0 /\ q >= 0 THEN (IF p = 0 /\ q = 0 THEN 0 ELSE 1)
    ELSE IF p <= 0 /\ q <= 0 THEN -1
    ELSE IF p > 0 THEN Sign(p * p - q * q * n)
    ELSE Sign(q * q * n - p * p)

\* the number (u + w * sqrt(n)) / d, d > 0, in its unique form: a rational
\* number has w = 0, rad = 1 and u / den in lowest terms
Canon(u, w, n, d) ==
    IF w = 0 \/ IsSquare(n)
    THEN LET u2 == IF w = 0 THEN u ELSE u + w * RootOf(n)
             g == Gcd(Abs(u2), d)
         IN  [u |-> u2 \div g, w |-> 0, rad |-> 1, den |-> d \div g]
    ELSE LET g == Gcd(Gcd(Abs(u), Abs(w)), d)
         IN  [u |-> u \div g, w |-> w \div g, rad |-> n, den |-> d \div g]

\* the integer v as a sample value
Exact(v) == [u |-> v, w |-> 0, rad |-> 1, den |-> 1]

\* the order of two sample values of one pixel (they share the radicand,
\* or one of them is rational): -1, 0 or 1 as x < y, x = y, x > y
Cmp(x, y) ==
    SignSurd(x.u * y.den - y.u * x.den, x.w * y.den - y.w * x.den,
             IF x.w # 0 THEN x.rad ELSE y.rad)

\* the unit vector of np.arctan2(y, x): (x, y) reduced to lowest terms, its
\* length the square root of rad; arctan2(0, 0) = 0, the direction of (1, 0)
Direction(y, x) ==
    IF x = 0 /\ y = 0 THEN [cx |-> 1, sy |-> 0, rad |-> 1]
    ELSE LET g == Gcd(Abs(x), Abs(y))
             a == Sign(x) * (Abs(x) \div g)
             b == Sign(y) * (Abs(y) \div g)
         IN  [cx |-> a, sy |-> b, rad |-> a * a + b * b]

\* np.cos(np.arctan2(y, x)) as num / sqrt(rad)
CosArctan2(y, x) ==
    LET d == Direction(y, x) IN [num |-> d.cx, rad |-> d.rad]

\* np.sin(np.arctan2(y, x)) as num / sqrt(rad)
SinArctan2(y, x) ==
    LET d == Direction(y, x) IN [num |-> d.sy, rad |-> d.rad]

\* ------------------------------------------------------ boundary handling
\* mode='reflect' (d c b a | a b c d | d c b a): index i of the extended
\* signal read from an axis of length len
\* faulty variant: mode='wrap', the circularly wrapped index
WrapIdx(i, len) == i % len

ReflectIdx(i, len) ==
    IF len <= 1 THEN 0
    ELSE LET m == i % (2 * len)
         IN  IF m >= len THEN 2 * len - 1 - m ELSE m

NRows(sp) == Cardinality(DOMAIN sp)

NCols(sp) == Cardinality(DOMAIN sp[0])

\* faulty variant: mode='constant', zero outside the array
ExtZeroFill(sp, r, c) ==
    IF r \in DOMAIN sp /\ c \in DOMAIN sp[0] THEN sp[r][c] ELSE 0

\* the input extended by reflection to every integer coordinate
Ext(sp, r, c) == sp[ReflectIdx(r, NRows(sp))][ReflectIdx(c, NCols(sp))]

\* ------------------------------------------------------------- gradients
\* sobel(spec, axis=1, mode='reflect'): derivative [-1,0,1] along columns,
\* smoothing [1,2,1] along rows
SobelX(sp, r, c) ==
    LET D(i) == Ext(sp, i, c + 1) - Ext(sp, i, c - 1)
    IN  D(r - 1) + 2 * D(r) + D(r + 1)

\* sobel(spec, axis=0, mode='reflect'): derivative along rows, smoothing
\* along columns
SobelY(sp, r, c) ==
    LET D(j) == Ext(sp, r + 1, j) - Ext(sp, r - 1, j)
    IN  D(c - 1) + 2 * D(c) + D(c + 1)

\* dx = cos(theta), theta = arctan2(Gy, Gx) + pi/2, so dx = -sin(arctan2)
DxField(sp) ==
    [r \in DOMAIN sp |-> [c \in DOMAIN sp[0] |->
        LET s == SinArctan2(SobelY(sp, r, c), SobelX(sp, r, c))
        IN  [num |-> -s.num, rad |-> s.rad]]]

\* dy = sin(theta) = cos(arctan2(Gy, Gx))
DyField(sp) ==
    [r \in DOMAIN sp |-> [c \in DOMAIN sp[0] |->
        CosArctan2(SobelY(sp, r, c), SobelX(sp, r, c))]]

\* --------------------------------------------------------------- sampling
\* A coordinate is a record [int, num, rad] for int + num / sqrt(rad).  The
\* row and the column coordinate of one sample come from the direction of
\* one pixel, so they have the same radicand.
\* faulty variant: the interpolation weights of the two row taps exchanged
MapCoordinatesSwapped(sp, rr, cc) ==
    LET n == rr.rad
        a == rr.num
        b == cc.num
        qr == FloorDivSqrt(a, n)
        qc == FloorDivSqrt(b, n)
        r0 == rr.int + qr
        c0 == cc.int + qc
        e00 == Ext(sp, r0 + 1, c0)
        e01 == Ext(sp, r0 + 1, c0 + 1)
        e10 == Ext(sp, r0, c0)
        e11 == Ext(sp, r0, c0 + 1)
        B == e10 - e00
        C == e01 - e00
        D == e00 - e01 - e10 + e11
    IN  Canon(n * e00 - n * qr * B - n * qc * C + D * (a * b + n * qr * qc),
              a * B + b * C - D * (qc * a + qr * b), n, n)

\* map_coordinates(spec, [rr, cc], order=1, mode='reflect') at one point:
\* with r0 = floor(rr), fr = rr - r0, c0 = floor(cc), fc = cc - c0 the value
\*   (1-fr)(1-fc) e00 + (1-fr) fc e01 + fr (1-fc) e10 + fr fc e11
\* = e00 + fr B + fc C + fr fc D,   fr = a/sqrt(n) - qr,  fc = b/sqrt(n) - qc
MapCoordinates(sp, rr, cc) ==
    LET n == rr.rad
        a == rr.num
        b == cc.num
        qr == FloorDivSqrt(a, n)
        qc == FloorDivSqrt(b, n)
        r0 == rr.int + qr
        c0 == cc.int + qc
        e00 == Ext(sp, r0, c0)
        e01 == Ext(sp, r0, c0 + 1)
        e10 == Ext(sp, r0 + 1, c0)
        e11 == Ext(sp, r0 + 1, c0 + 1)
        B == e10 - e00
        C == e01 - e00
        D == e00 - e01 - e10 + e11
    IN  Canon(n * e00 - n * qr * B - n * qc * C + D * (a * b + n * qr * qc),
              a * B + b * C - D * (qc * a + qr * b), n, n)

\* faulty variant: the offsets of |radius|
OffsetsAbs(rad) == (-Abs(rad))..Abs(rad)

\* offsets = np.arange(-radius, radius + 1): empty when radius < 0
Offsets(rad) == (-rad)..rad

\* the sample of pixel (r, c) at offset k: rr = rows + k*dy, cc = cols + k*dx
RowCoord(r, k, dyv) == [int |-> r, num |-> k * dyv.num, rad |-> dyv.rad]

ColCoord(c, k, dxv) == [int |-> c, num |-> k * dxv.num, rad |-> dxv.rad]

SampleAt(sp, dxF, dyF, r, c, k) ==
    MapCoordinates(sp, RowCoord(r, k, dyF[r][c]), ColCoord(c, k, dxF[r][c]))

\* local_vals / stack_chunk at one pixel: the samples, one per offset k, as
\* the set of <<k, sample>> pairs
PixelStack(sp, dxF, dyF, rad, r, c) ==
    {<<k, SampleAt(sp, dxF, dyF, r, c, k)>> : k \in Offsets(rad)}

\* np.median(stack_chunk, axis=-1) at one pixel, of an odd number of
\* samples: the middle one in sorted order
Median(stack) ==
    LET half == Cardinality(stack) \div 2
        mid == CHOOSE p \in stack :
                 /\ Cardinality({q \in stack : Cmp(q[2], p[2]) < 0}) <= half
                 /\ Cardinality({q \in stack : Cmp(q[2], p[2]) <= 0}) >= half + 1
    IN  mid[2]

PixelMedian(sp, dxF, dyF, rad, r, c) ==
    Median(PixelStack(sp, dxF, dyF, rad, r, c))

\* ------------------------------------------------------------------ state
VARIABLES
    shape,        \* AMF: shape of the array passed as spec (ndim = Len(shape))
    spec,         \* AMF: the 2-D input, rows 0..F-1, columns 0..T-1
    radius,       \* AMF: the radius argument
    pc,           \* AMF: position in the function
    err,          \* AMF: the exception raised, "none" if none
    dx, dy,       \* AMF: cos(theta), sin(theta) per pixel, as num / sqrt(rad)
    nGrad,        \* AMF: number of times the orientation field was computed
    filtered,     \* AMF: the output array, of sample values
    start,        \* AMF: the chunk loop's variable
    stack_chunk,  \* AMF: the sample stack of the chunk processed last
    chunks,       \* AMF: history of the chunks processed, <<start, end>>
    writes,       \* AMF: history, number of writes to each output pixel
    files,            \* circular_sort: the filenames passed in
    offset,           \* circular_sort: the offset argument, "HHMMSS"
    time_file_pairs,  \* circular_sort: the (seconds, filename) pairs
    sorted_files,     \* circular_sort: the list returned
    pcSort,           \* circular_sort: position in the function
    n_times,          \* compute_snr: number of time samples
    burst_labels,     \* compute_snr: the burst label records
    burst_mask,       \* compute_snr: the burst mask over 0..n_times-1
    entry_i,          \* compute_snr: labels consumed by the loop so far
    inside_idx,       \* compute_snr: time indices averaged into signal_mean
    outside_idx,      \* compute_snr: time indices averaged into noise_mean
    pcSnr             \* compute_snr: position in the function

amfVars == <<shape, spec, radius, pc, err, dx, dy, nGrad,
             filtered, start, stack_chunk, chunks, writes>>

sortVars == <<files, offset, time_file_pairs, sorted_files, pcSort>>

snrVars == <<n_times, burst_labels, burst_mask, entry_i, inside_idx,
             outside_idx, pcSnr>>

vars == <<amfVars, sortVars, snrVars>>

\* the state of a function that is not called
IdleAMF ==
    /\ shape = <<>> /\ spec = <<>> /\ radius = 0
    /\ pc = "idle" /\ err = "none" /\ dx = <<>> /\ dy = <<>> /\ nGrad = 0
    /\ filtered = <<>> /\ start = 0 /\ stack_chunk = <<>> /\ chunks = <<>>
    /\ writes = <<>>

IdleSort ==
    /\ files = <<>> /\ offset = <<>> /\ time_file_pairs = <<>>
    /\ sorted_files = <<>> /\ pcSort = "idle"

IdleSnr ==
    /\ n_times = 0 /\ burst_labels = <<>> /\ burst_mask = <<>> /\ entry_i = 0
    /\ inside_idx = {} /\ outside_idx = {} /\ pcSnr = "idle"

Ndim == Len(shape)

\* ---------------------------------------------------------------- AMF
\* the 2-D arrays of one shape a caller may pass: a background level with at
\* most MaxBright pixels of the other level
ImagesOfShape(F, T) ==
    LET Pix == (0..(F - 1)) \X (0..(T - 1))
    IN  {[r \in 0..(F - 1) |-> [c \in 0..(T - 1) |->
            IF <<r, c>> \in B THEN 1 - bg ELSE bg]] :
            <<bg, B>> \in PixelValues
                \X {S \in SUBSET Pix : Cardinality(S) <= MaxBright}}

SmallImages ==
    UNION {ImagesOfShape(ft[1], ft[2]) : ft \in (1..MaxRows) \X (1..MaxCols)}

\* line 54: the number of rows of a chunk
chunk_size == 2000

\* the 2-D arrays of more rows than one chunk holds: chunk_size + 1 rows of
\* MaxCols columns, a background level with at most one pixel of the other
\* level, placed in column 0 of the last row of the first chunk or of the
\* first row of the second
TallImages ==
    LET Pix == ((chunk_size - 1)..chunk_size) \X {0}
    IN  {[r \in 0..chunk_size |-> [c \in 0..(MaxCols - 1) |->
            IF <<r, c>> \in B THEN 1 - bg ELSE bg]] :
            <<bg, B>> \in PixelValues
                \X {S \in SUBSET Pix : Cardinality(S) <= 1}}

Images == SmallImages \cup TallImages

\* the radius passed with a tall image or with an array that is not 2-D
EdgeRadii == {-1, 0, 1}

\* shapes of the arrays of 0, 1 and 3 dimensions a caller may pass
OtherShapes == {<<>>, <<2>>, <<2, 2, 2>>}

\* np.zeros_like(spec)
Zeros(sp) == [r \in DOMAIN sp |-> [c \in DOMAIN sp[0] |-> Exact(0)]]

\* no output pixel written yet
NoWrites(sp) == [r \in DOMAIN sp |-> [c \in DOMAIN sp[0] |-> 0]]

InitAMF ==
    /\ \/ /\ spec \in SmallImages
          /\ shape = <<NRows(spec), NCols(spec)>>
          /\ radius \in (-1)..MaxRadius
       \/ /\ spec \in TallImages
          /\ shape = <<NRows(spec), NCols(spec)>>
          /\ radius \in EdgeRadii
       \/ /\ shape \in OtherShapes
          /\ spec = <<>>
          /\ radius \in EdgeRadii
    /\ pc = "start"
    /\ err = "none"
    /\ dx = <<>>
    /\ dy = <<>>
    /\ nGrad = 0
    /\ filtered = <<>>
    /\ start = 0
    /\ stack_chunk = <<>>
    /\ chunks = <<>>
    /\ writes = <<>>
    /\ IdleSort
    /\ IdleSnr

\* faulty variant: the first sobel call taken along axis 0
SobelAxisOkAxis0(ndim) == ndim >= 1

\* line 41: sobel(spec, axis=1) needs an axis 1
SobelAxisOk(ndim) == ndim >= 2

\* line 45: nrows, ncols = spec.shape unpacks exactly two values
UnpackOk(ndim) == ndim = 2

\* lines 38-43, input of fewer than 2 dimensions: sobel(spec, axis=1) has no
\* axis 1 and raises (numpy AxisError, a ValueError) before any gradient
GradientFail ==
    /\ pc = "start"
    /\ ~SobelAxisOk(Ndim)
    /\ pc' = "error"
    /\ err' = "ValueError"
    /\ UNCHANGED <<shape, spec, radius, dx, dy, nGrad, filtered,
                   start, stack_chunk, chunks, writes>>
    /\ UNCHANGED <<sortVars, snrVars>>

\* lines 38-43: Gx, Gy, theta (and lines 50-51: dx, dy) over the whole input.
\* An input of 3 or more dimensions passes here; its fields are not modelled.
Gradient ==
    /\ pc = "start"
    /\ SobelAxisOk(Ndim)
    /\ dx' = IF Ndim = 2 THEN DxField(spec) ELSE <<>>
    /\ dy' = IF Ndim = 2 THEN DyField(spec) ELSE <<>>
    /\ nGrad' = nGrad + 1
    /\ pc' = "unpack"
    /\ UNCHANGED <<shape, spec, radius, err, filtered, start,
                   stack_chunk, chunks, writes>>
    /\ UNCHANGED <<sortVars, snrVars>>

\* line 45, input of 3 or more dimensions: nrows, ncols = spec.shape raises
\* ValueError (too many values to unpack)
UnpackFail ==
    /\ pc = "unpack"
    /\ ~UnpackOk(Ndim)
    /\ pc' = "error"
    /\ err' = "ValueError"
    /\ UNCHANGED <<shape, spec, radius, dx, dy, nGrad, filtered,
                   start, stack_chunk, chunks, writes>>
    /\ UNCHANGED <<sortVars, snrVars>>

\* lines 45-55: filtered = zeros_like(spec); the loop starts at row 0
Unpack ==
    /\ pc = "unpack"
    /\ UnpackOk(Ndim)
    /\ filtered' = Zeros(spec)
    /\ writes' = NoWrites(spec)
    /\ start' = 0
    /\ pc' = "loop"
    /\ UNCHANGED <<shape, spec, radius, err, dx, dy, nGrad,
                   stack_chunk, chunks>>
    /\ UNCHANGED <<sortVars, snrVars>>

\* line 56
ChunkEnd(st, size, nrows) == Min(st + size, nrows)

\* faulty variant: a step one larger than the chunk
NextStartSkip(st, size) == st + size + 1

\* line 55, range(0, nrows, chunk_size): the start that follows st
NextStart(st, size) == st + size

\* lines 57-70: stack_chunk for the rows st..en-1, sampled from the whole
\* input and the whole orientation field at the rows' own coordinates
ChunkStack(sp, dxF, dyF, rad, st, en) ==
    [r \in st..(en - 1) |-> [c \in DOMAIN sp[0] |->
        PixelStack(sp, dxF, dyF, rad, r, c)]]

\* lines 55-74, one iteration with no offsets (radius < 0): local_vals stays
\* empty and np.stack(local_vals) raises ValueError
ChunkFail ==
    /\ pc = "loop"
    /\ start < NRows(spec)
    /\ Offsets(radius) = {}
    /\ pc' = "error"
    /\ err' = "ValueError"
    /\ UNCHANGED <<shape, spec, radius, dx, dy, nGrad, filtered,
                   start, stack_chunk, chunks, writes>>
    /\ UNCHANGED <<sortVars, snrVars>>

\* faulty variant: the orientation field computed again in every iteration
ChunkStepRegrad ==
    /\ pc = "loop"
    /\ start < NRows(spec)
    /\ Offsets(radius) # {}
    /\ dx' = DxField(spec)
    /\ dy' = DyField(spec)
    /\ nGrad' = nGrad + 1
    /\ LET end == ChunkEnd(start, chunk_size, NRows(spec))
       IN  /\ stack_chunk' = ChunkStack(spec, dx', dy', radius, start, end)
           /\ filtered' = [r \in DOMAIN filtered |->
                  IF r \in start..(end - 1)
                  THEN [c \in DOMAIN filtered[r] |-> Median(stack_chunk'[r][c])]
                  ELSE filtered[r]]
           /\ writes' = [r \in DOMAIN writes |-> [c \in DOMAIN writes[r] |->
                  IF r \in start..(end - 1) THEN writes[r][c] + 1
                  ELSE writes[r][c]]]
           /\ chunks' = Append(chunks, <<start, end>>)
    /\ start' = NextStart(start, chunk_size)
    /\ UNCHANGED <<shape, spec, radius, pc, err>>
    /\ UNCHANGED <<sortVars, snrVars>>

\* lines 55-74, one iteration of the chunk loop
ChunkStep ==
    /\ pc = "loop"
    /\ start < NRows(spec)
    /\ Offsets(radius) # {}
    /\ LET end == ChunkEnd(start, chunk_size, NRows(spec))
       IN  /\ stack_chunk' = ChunkStack(spec, dx, dy, radius, start, end)
           /\ filtered' = [r \in DOMAIN filtered |->
                  IF r \in start..(end - 1)
                  THEN [c \in DOMAIN filtered[r] |-> Median(stack_chunk'[r][c])]
                  ELSE filtered[r]]
           /\ writes' = [r \in DOMAIN writes |-> [c \in DOMAIN writes[r] |->
                  IF r \in start..(end - 1) THEN writes[r][c] + 1
                  ELSE writes[r][c]]]
           /\ chunks' = Append(chunks, <<start, end>>)
    /\ start' = NextStart(start, chunk_size)
    /\ UNCHANGED <<shape, spec, radius, pc, err, dx, dy, nGrad>>
    /\ UNCHANGED <<sortVars, snrVars>>

\* line 76: the loop is exhausted, filtered is returned
Return ==
    /\ pc = "loop"
    /\ start >= NRows(spec)
    /\ pc' = "done"
    /\ UNCHANGED <<shape, spec, radius, err, dx, dy, nGrad,
                   filtered, start, stack_chunk, chunks, writes>>
    /\ UNCHANGED <<sortVars, snrVars>>

NextAMF ==
    \/ GradientFail
    \/ Gradient
    \/ UnpackFail
    \/ Unpack
    \/ ChunkFail
    \/ ChunkStep
    \/ Return

SpecAMF == InitAMF /\ [][NextAMF]_vars

\* ------------------------------------------------------ circular_sort
\* A filename is the sequence of the code points of its characters.
\* ord() of the ASCII characters written in the names below
Ord(ch) ==
    CASE ch = "." -> 46
      [] ch = "0" -> 48
      [] ch = "1" -> 49
      [] ch = "2" -> 50
      [] ch = "5" -> 53
      [] ch = "9" -> 57
      [] ch = "A" -> 65
      [] ch = "L" -> 76
      [] ch = "_" -> 95
      [] ch = "t" -> 116
      [] ch = "x" -> 120
      [] ch = "y" -> 121

\* the string written as the sequence str, as code points
Str(str) == [i \in 1..Len(str) |-> Ord(str[i])]

\* The code points of the characters DIGIT ZERO of Unicode category Nd
\* (Unicode 14.0.0: 66 scripts, ASCII first).  In every script the digits
\* zero to nine are ten consecutive code points.
NdZeros ==
    {48, 1632, 1776, 1984, 2406, 2534, 2662, 2790, 2918, 3046, 3174,
     3302, 3430, 3558, 3664, 3792, 3872, 4160, 4240, 6112, 6160, 6470,
     6608, 6784, 6800, 6992, 7088, 7232, 7248, 42528, 43216, 43264,
     43472, 43504, 43600, 44016, 65296, 66720, 68912, 69734, 69872,
     69942, 70096, 70384, 70736, 70864, 71248, 71360, 71472, 71904,
     72016, 72784, 73040, 73120, 92768, 92864, 93008, 120782, 120792,
     120802, 120812, 120822, 123200, 123632, 125264, 130032}

\* the DIGIT ZERO of the script of a decimal digit
ZeroOf(cp) == CHOOSE z \in NdZeros : z <= cp /\ cp <= z + 9

\* line 59, \d at one character: the pattern is a str pattern compiled
\* without re.ASCII, so \d matches every character of category Nd
IsDigit(cp) == \E z \in NdZeros : z <= cp /\ cp <= z + 9

\* int() of one decimal digit character: its digit value in its script
DigitVal(cp) == cp - ZeroOf(cp)

\* int() of a two-character slice such as hhmmss[:2]
Int2(str, i) == 10 * DigitVal(str[i]) + DigitVal(str[i + 1])

\* lines 54-56
hhmmss_to_seconds(hhmmss) ==
    Int2(hhmmss, 1) * 3600 + Int2(hhmmss, 3) * 60 + Int2(hhmmss, 5)

\* line 59, r"_(\d{6})_" matched at position i of f
MatchesAt(f, i) ==
    /\ i >= 1
    /\ i + 7 <= Len(f)
    /\ f[i] = Ord("_")
    /\ \A j \in 1..6 : IsDigit(f[i + j])
    /\ f[i + 7] = Ord("_")

\* line 64, time_re.search(f): whether there is a match
HasMatch(f) == \E i \in 1..Len(f) : MatchesAt(f, i)

\* lines 64-66, match.group(1) of the leftmost match
MatchGroup(f) ==
    LET i == CHOOSE k \in 1..Len(f) :
                 MatchesAt(f, k) /\ \A m \in 1..(k - 1) : ~MatchesAt(f, m)
    IN  SubSeq(f, i + 1, i + 6)

\* lines 62-67: the (t, f) pairs of the files that match, in input order
RECURSIVE MapFiles(_)
MapFiles(fs) ==
    IF fs = <<>> THEN <<>>
    ELSE LET f == Head(fs)
         IN  (IF HasMatch(f)
              THEN <<<<hhmmss_to_seconds(MatchGroup(f)), f>>>>
              ELSE <<>>) \o MapFiles(Tail(fs))

\* pair p put into the sorted list ps after every pair whose key is <= its own
RECURSIVE InsertByTime(_, _)
InsertByTime(p, ps) ==
    IF ps = <<>> THEN <<p>>
    ELSE IF p[1] < Head(ps)[1] THEN <<p>> \o ps
    ELSE <<Head(ps)>> \o InsertByTime(p, Tail(ps))

\* line 70, list.sort(key=lambda x: x[0]): ascending in the time, stable
RECURSIVE SortByTime(_)
SortByTime(ps) ==
    IF ps = <<>> THEN <<>>
    ELSE InsertByTime(ps[Len(ps)], SortByTime(SubSeq(ps, 1, Len(ps) - 1)))

\* faulty variant: the first time strictly after the offset
RotationIndexStrict(ps, offset_sec) ==
    IF \E i \in 1..Len(ps) : ps[i][1] > offset_sec
    THEN (CHOOSE i \in 1..Len(ps) :
              /\ ps[i][1] > offset_sec
              /\ \A j \in 1..(i - 1) : ~(ps[j][1] > offset_sec)) - 1
    ELSE 0

\* line 77: the 0-based index of the first time >= offset_sec, 0 if none
RotationIndex(ps, offset_sec) ==
    IF \E i \in 1..Len(ps) : ps[i][1] >= offset_sec
    THEN (CHOOSE i \in 1..Len(ps) :
              /\ ps[i][1] >= offset_sec
              /\ \A j \in 1..(i - 1) : ~(ps[j][1] >= offset_sec)) - 1
    ELSE 0

\* line 79: pairs[idx:] + pairs[:idx], the filenames only
Rotate(ps, idx) ==
    LET rot == SubSeq(ps, idx + 1, Len(ps)) \o SubSeq(ps, 1, idx)
    IN  [i \in 1..Len(rot) |-> rot[i][2]]

\* the inputs: names built as <station>_<date>_<HHMMSS>_<focus code>
\* the time of day t written as HHMMSS in the digits of the script whose
\* DIGIT ZERO is z
StampIn(z, t) ==
    LET D2(n) == <<z + (n \div 10), z + (n % 10)>>
    IN  D2(t \div 3600) \o D2((t % 3600) \div 60) \o D2(t % 60)

ToStamp(t) == StampIn(Ord("0"), t)

StationDate ==
    Str(<<"A", "L", "_", "2", "0", "2", "5", "0", "9", "2", "2">>)

FileName(t, code) ==
    StationDate \o Str(<<"_">>) \o ToStamp(t) \o Str(<<"_">>) \o Str(code)

\* times of day, in seconds, of the recordings listed
TimePool == {0, 5400, 46800, 86399}

\* DIGIT ZERO of the scripts other than ASCII a listed name is written in:
\* ARABIC-INDIC, DEVANAGARI, FULLWIDTH
OtherZeros == {1632, 2406, 65296}

\* DIGIT ZERO of the script mixed with ASCII digits in one time field: the
\* last of category Nd (SEGMENTED DIGIT ZERO)
MixedZeros == {130032}

\* times of day of the names whose time field is not in ASCII digits
OtherTimes == {45296}

\* a name whose time field is written in the digits of the script of z
ScriptName(z, t) == Str(<<"x", "_">>) \o StampIn(z, t) \o Str(<<"_", "y">>)

\* a name whose time field mixes the digits of ASCII and of another script
MixedName(z, t) ==
    LET a == StampIn(Ord("0"), t)
        b == StampIn(z, t)
    IN  Str(<<"x", "_">>)
            \o [i \in 1..6 |-> IF i % 2 = 1 THEN a[i] ELSE b[i]]
            \o Str(<<"_", "y">>)

\* listed names: one recording per time, a second recording at 13:00:00,
\* names in the digits of other scripts, a name with no time field and a
\* name whose six digits end the name
FilePool ==
    {FileName(t, <<"0", "1">>) : t \in TimePool}
        \cup {FileName(46800, <<"0", "2">>)}
        \cup {ScriptName(z, t) : z \in OtherZeros, t \in OtherTimes}
        \cup {MixedName(z, t) : z \in MixedZeros, t \in OtherTimes}
        \cup {StationDate \o Str(<<".", "t", "x", "t">>)}
        \cup {Str(<<"A", "L", "_">>) \o ToStamp(5400)}

\* offsets, as times of day in seconds
OffsetTimes == {0, 43200, 46800, 86399}

OffsetPool == {ToStamp(t) : t \in OffsetTimes}

RECURSIVE SeqsUpTo(_, _)
SeqsUpTo(S, n) ==
    IF n = 0 THEN {<<>>}
    ELSE LET shorter == SeqsUpTo(S, n - 1)
         IN  shorter \cup {Append(q, x) : q \in {u \in shorter : Len(u) = n - 1},
                                           x \in S}

InitSort ==
    /\ files \in SeqsUpTo(FilePool, MaxFiles)
    /\ offset \in OffsetPool
    /\ time_file_pairs = <<>>
    /\ sorted_files = <<>>
    /\ pcSort = "map"
    /\ IdleAMF
    /\ IdleSnr

\* lines 59-67
MapStep ==
    /\ pcSort = "map"
    /\ time_file_pairs' = MapFiles(files)
    /\ pcSort' = "sort"
    /\ UNCHANGED <<files, offset, sorted_files>>
    /\ UNCHANGED <<amfVars, snrVars>>

\* line 70
SortStep ==
    /\ pcSort = "sort"
    /\ time_file_pairs' = SortByTime(time_file_pairs)
    /\ pcSort' = "rotate"
    /\ UNCHANGED <<files, offset, sorted_files>>
    /\ UNCHANGED <<amfVars, snrVars>>

\* lines 73-81
RotateStep ==
    /\ pcSort = "rotate"
    /\ sorted_files' =
           Rotate(time_file_pairs,
                  RotationIndex(time_file_pairs, hhmmss_to_seconds(offset)))
    /\ pcSort' = "done"
    /\ UNCHANGED <<files, offset, time_file_pairs>>
    /\ UNCHANGED <<amfVars, snrVars>>

NextSort ==
    \/ MapStep
    \/ SortStep
    \/ RotateStep

SpecSort == InitSort /\ [][NextSort]_vars

\* -------------------------------------------------------- compute_snr
\* burst_mask[lo:hi] = True on an array of length n: the indices a Python
\* slice selects (a negative bound counts from the end)
SliceBound(b, n) == IF b < 0 THEN Max(b + n, 0) ELSE Min(b, n)

SliceIndices(lo, hi, n) == SliceBound(lo, n)..(SliceBound(hi, n) - 1)

\* lines 48-50: the mask after one label
MarkEntry(mask, entry, n) ==
    LET st == Max(0, entry.start_idx)
        en == Min(n - 1, entry.end_idx)
    IN  [t \in DOMAIN mask |->
            IF t \in SliceIndices(st, en + 1, n) THEN TRUE ELSE mask[t]]

\* start and end indices of a label on a time axis of n samples
StartPool(n) == {-2, 0, 1, n}

EndPool(n) == {-3, -1, 1, n - 1, n + 1}

LabelPool(n) ==
    {[start_idx |-> a, end_idx |-> b] : <<a, b>> \in StartPool(n) \X EndPool(n)}

InitSnr ==
    /\ n_times \in 1..MaxTimes
    /\ burst_labels \in SeqsUpTo(LabelPool(n_times), MaxLabels)
    /\ burst_mask = <<>>
    /\ entry_i = 0
    /\ inside_idx = {}
    /\ outside_idx = {}
    /\ pcSnr = "start"
    /\ IdleAMF
    /\ IdleSort

\* lines 42-46: burst_mask = np.zeros(n_times, dtype=bool)
MaskInit ==
    /\ pcSnr = "start"
    /\ burst_mask' = [t \in 0..(n_times - 1) |-> FALSE]
    /\ pcSnr' = "loop"
    /\ UNCHANGED <<n_times, burst_labels, entry_i, inside_idx, outside_idx>>
    /\ UNCHANGED <<amfVars, sortVars>>

\* lines 47-50: one iteration of the loop over the labels
MarkStep ==
    /\ pcSnr = "loop"
    /\ entry_i < Len(burst_labels)
    /\ burst_mask' = MarkEntry(burst_mask, burst_labels[entry_i + 1], n_times)
    /\ entry_i' = entry_i + 1
    /\ UNCHANGED <<n_times, burst_labels, inside_idx, outside_idx, pcSnr>>
    /\ UNCHANGED <<amfVars, sortVars>>

\* lines 52-59: inside_flux = flux_time[burst_mask], outside_flux =
\* flux_time[~burst_mask], the samples averaged into the two means
SplitStep ==
    /\ pcSnr = "loop"
    /\ entry_i = Len(burst_labels)
    /\ inside_idx' = {t \in DOMAIN burst_mask : burst_mask[t]}
    /\ outside_idx' = {t \in DOMAIN burst_mask : ~burst_mask[t]}
    /\ pcSnr' = "done"
    /\ UNCHANGED <<n_times, burst_labels, burst_mask, entry_i>>
    /\ UNCHANGED <<amfVars, sortVars>>

NextSnr ==
    \/ MaskInit
    \/ MarkStep
    \/ SplitStep

SpecSnr == InitSnr /\ [][NextSnr]_vars

\* ------------------------------------------------------------ AMF claims
\* the input as an array of sample values
Scaled(sp) == [r \in DOMAIN sp |-> [c \in DOMAIN sp[0] |-> Exact(sp[r][c])]]

IsFlat(sp) == \A r \in DOMAIN sp : \A c \in DOMAIN sp[0] : sp[r][c] = sp[0][0]

\* C2 as stated: a call with radius <= 0 or chunk_size <= 0 is rejected, no
\* chunk is processed and the call does not return an array.
C2_RejectsNonPositive ==
    (Ndim = 2 /\ (radius <= 0 \/ chunk_size <= 0))
        => (chunks = <<>> /\ stack_chunk = <<>> /\ pc # "done")

\* C2 amended: a call with radius < 0 fails with ValueError in the first
\* iteration of the chunk loop with no sample computed and no output pixel
\* written; a call with radius = 0 raises nothing; chunk_size is positive.
C2_NegativeRadiusFails ==
    Ndim = 2 =>
        /\ chunk_size >= 1
        /\ radius < 0 =>
              /\ pc # "done"
              /\ chunks = <<>>
              /\ stack_chunk = <<>>
              /\ pc \in {"loop", "error"} => filtered = Zeros(spec)
              /\ pc \in {"loop", "error"} => writes = NoWrites(spec)
              /\ pc = "loop" => ENABLED ChunkFail /\ ~ENABLED Return
              /\ pc = "error" => err = "ValueError"
        /\ radius >= 0 => pc # "error" /\ err = "none"

C2_Witness ==
    /\ Ndim = 2
    /\ radius < 0
    /\ pc = "error"
    /\ err = "ValueError"
    /\ nGrad = 1

\* C3 as stated: an input that is not 2-dimensional is rejected before the
\* gradient is computed and before any chunk is processed.
C3_RejectsBeforeGradient ==
    Ndim # 2 => (nGrad = 0 /\ chunks = <<>> /\ pc \notin {"loop", "done"})

\* C3 amended: an input that is not 2-dimensional fails with ValueError before
\* any chunk is processed; with fewer than 2 dimensions the gradient is never
\* computed, with more than 2 it is computed first and the call fails after.
C3_NonTwoDimFails ==
    Ndim # 2 =>
        /\ pc \in {"start", "unpack", "error"}
        /\ chunks = <<>>
        /\ stack_chunk = <<>>
        /\ filtered = <<>>
        /\ pc = "error" => err = "ValueError"
        /\ Ndim < 2 => nGrad = 0 /\ pc # "unpack"
        /\ (Ndim > 2 /\ pc = "error") => nGrad = 1

C3_Witness ==
    /\ Ndim = 3
    /\ pc = "error"
    /\ err = "ValueError"
    /\ nGrad = 1

\* C4: with radius = 0 every pixel's stack holds the one sample of offset 0,
\* the pixel itself, and the returned array equals the input.
C4_RadiusZeroIdentity ==
    (Ndim = 2 /\ radius = 0) =>
        /\ \A r \in DOMAIN stack_chunk : \A c \in DOMAIN stack_chunk[r] :
              stack_chunk[r][c] = {<<0, Exact(spec[r][c])>>}
        /\ pc = "done" => filtered = Scaled(spec)

C4_Witness ==
    /\ Ndim = 2
    /\ radius = 0
    /\ pc = "done"
    /\ ~IsFlat(spec)
    /\ \E r \in DOMAIN dx : \E c \in DOMAIN dx[r] : dx[r][c].num # 0 /\ dy[r][c].num # 0

\* C5: a constant input of value c gives c at every sample and at every
\* output pixel, whatever the radius, the shape and the number of chunks.
C5_FlatField ==
    (Ndim = 2 /\ IsFlat(spec)) =>
        /\ \A r \in DOMAIN stack_chunk : \A c \in DOMAIN stack_chunk[r] :
              \A p \in stack_chunk[r][c] : p[2] = Exact(spec[0][0])
        /\ pc = "done" => filtered = Scaled(spec)

C5_Witness ==
    /\ Ndim = 2
    /\ IsFlat(spec)
    /\ spec[0][0] # 0
    /\ pc = "done"
    /\ radius >= 1
    /\ Len(chunks) >= 2

\* the mirror image of index i in 0..len-1: reflection about the array's
\* edges, repeated until the index is inside
RECURSIVE Mirror(_, _)
Mirror(i, len) ==
    IF i < 0 THEN Mirror(-1 - i, len)
    ELSE IF i >= len THEN Mirror(2 * len - 1 - i, len)
    ELSE i

\* floor of a coordinate
FloorOf(x) == x.int + FloorDivSqrt(x.num, x.rad)

OutOfBounds(x, len) == FloorOf(x) < 0 \/ FloorOf(x) >= len

\* the bilinear blend at (rr, cc) of the four taps, each read at the mirror
\* image of its index: with fr, fc the fractional parts of rr, cc the value
\* (1-fr)(1-fc) V(r0,c0) + (1-fr) fc V(r0,c0+1) + fr (1-fc) V(r0+1,c0)
\* + fr fc V(r0+1,c0+1), collected by powers of 1/sqrt(n)
MirrorBlend(sp, rr, cc) ==
    LET n == rr.rad
        r0 == FloorOf(rr)
        c0 == FloorOf(cc)
        pr == rr.int - r0
        pc0 == cc.int - c0
        V(i, j) == sp[Mirror(i, NRows(sp))][Mirror(j, NCols(sp))]
        \* fr = pr + rr.num/sqrt(n), fc = pc0 + cc.num/sqrt(n)
        \* weights times n, as <<rational part, sqrt(n) part>>
        FrFc == <<n * pr * pc0 + rr.num * cc.num, pr * cc.num + pc0 * rr.num>>
        Fr == <<n * pr, rr.num>>
        Fc == <<n * pc0, cc.num>>
        W11 == FrFc
        W10 == <<Fr[1] - FrFc[1], Fr[2] - FrFc[2]>>
        W01 == <<Fc[1] - FrFc[1], Fc[2] - FrFc[2]>>
        W00 == <<n - Fr[1] - Fc[1] + FrFc[1], FrFc[2] - Fr[2] - Fc[2]>>
    IN  Canon(W00[1] * V(r0, c0) + W01[1] * V(r0, c0 + 1)
                + W10[1] * V(r0 + 1, c0) + W11[1] * V(r0 + 1, c0 + 1),
              W00[2] * V(r0, c0) + W01[2] * V(r0, c0 + 1)
                + W10[2] * V(r0 + 1, c0) + W11[2] * V(r0 + 1, c0 + 1),
              n, n)

\* C6: every sample of the stack whose displaced coordinate lies outside
\* [0, N) on an axis has the value read at the mirrored in-bounds indices,
\* not zero and not the value at the circularly wrapped index.
C6_BoundaryReflection ==
    \A r \in DOMAIN stack_chunk : \A c \in DOMAIN stack_chunk[r] :
        \A p \in stack_chunk[r][c] :
            LET rr == RowCoord(r, p[1], dy[r][c])
                cc == ColCoord(c, p[1], dx[r][c])
            IN  (OutOfBounds(rr, NRows(spec)) \/ OutOfBounds(cc, NCols(spec)))
                    => p[2] = MirrorBlend(spec, rr, cc)

\* a sample at a whole-pixel coordinate outside the rows whose mirrored pixel
\* is bright while the circularly wrapped pixel is dark
C6_Witness ==
    \E r \in DOMAIN stack_chunk : \E c \in DOMAIN stack_chunk[r] :
        \E p \in stack_chunk[r][c] :
            LET rr == RowCoord(r, p[1], dy[r][c])
                cc == ColCoord(c, p[1], dx[r][c])
            IN  /\ OutOfBounds(rr, NRows(spec))
                /\ rr.rad = 1
                /\ FloorOf(cc) \in DOMAIN spec[0]
                /\ p[2] = Exact(spec[Mirror(FloorOf(rr), NRows(spec))][FloorOf(cc)])
                /\ p[2] # Exact(0)
                /\ spec[FloorOf(rr) % NRows(spec)][FloorOf(cc)] = 0

\* C8: the chunks processed are contiguous row intervals of 1 to chunk_size
\* rows starting at row 0, no pixel is written twice, the output has the
\* input's shape, and at return the chunks cover all rows and every pixel has
\* been written exactly once.
C8_ChunkPartition ==
    pc \in {"loop", "done"} =>
        /\ DOMAIN filtered = DOMAIN spec
        /\ \A r \in DOMAIN spec : DOMAIN filtered[r] = DOMAIN spec[r]
        /\ \A i \in 1..Len(chunks) :
              /\ 1 <= chunks[i][2] - chunks[i][1]
              /\ chunks[i][2] - chunks[i][1] <= chunk_size
              /\ chunks[i][1] = (IF i = 1 THEN 0 ELSE chunks[i - 1][2])
              /\ chunks[i][2] <= NRows(spec)
        /\ \A r \in DOMAIN writes : \A c \in DOMAIN writes[r] :
              writes[r][c] = IF \E i \in 1..Len(chunks) :
                                   chunks[i][1] <= r /\ r < chunks[i][2]
                             THEN 1 ELSE 0
        /\ pc = "done" =>
              /\ chunks # <<>>
              /\ chunks[Len(chunks)][2] = NRows(spec)
              /\ \A r \in DOMAIN writes : \A c \in DOMAIN writes[r] :
                    writes[r][c] = 1

C8_Witness ==
    /\ pc = "done"
    /\ Len(chunks) >= 2
    /\ chunk_size >= 2
    /\ chunks[Len(chunks)][2] - chunks[Len(chunks)][1] < chunk_size

\* C9: the input never changes; the orientation field is computed once, from
\* the input, before the first chunk, and never changes afterwards; every
\* pixel a chunk writes is the median of the samples taken from the input
\* and the orientation field, and the other output pixels keep their value.
C9_OrientationOnceInputFrozen ==
    [][/\ spec' = spec
       /\ nGrad' <= 1
       /\ chunks' # <<>> => nGrad' = 1
       /\ nGrad' # nGrad =>
             (chunks = <<>> /\ pc = "start"
              /\ (Ndim = 2 => dx' = DxField(spec) /\ dy' = DyField(spec)))
       /\ nGrad' = nGrad => (dx' = dx /\ dy' = dy)
       /\ chunks' # chunks =>
             \A r \in DOMAIN filtered' : \A c \in DOMAIN filtered'[r] :
                 filtered'[r][c] =
                     IF chunks'[Len(chunks')][1] <= r
                        /\ r < chunks'[Len(chunks')][2]
                     THEN PixelMedian(spec, dx, dy, radius, r, c)
                     ELSE filtered[r][c]
      ]_vars

C9_Witness ==
    /\ pc = "done"
    /\ nGrad = 1
    /\ Len(chunks) >= 2
    /\ filtered # Scaled(spec)
    /\ dx = DxField(spec)
    /\ \E r \in DOMAIN dx : \E c \in DOMAIN dx[r] : dx[r][c].num # 0

\* ------------------------------------------------- circular_sort claims
Count(q, x) == Cardinality({i \in 1..Len(q) : q[i] = x})

FocusCodes == {<<"0", "1">>, <<"0", "2">>}

\* the names built with a time field, each with the time it was built from
TimedNames ==
    {<<FileName(t, code), t>> : t \in TimePool, code \in FocusCodes}
        \cup {<<ScriptName(z, t), t>> : z \in OtherZeros, t \in OtherTimes}
        \cup {<<MixedName(z, t), t>> : z \in MixedZeros, t \in OtherTimes}

\* a listed name that carries a time field, and the time it was built from
Carries(f) == \E p \in TimedNames : p[1] = f

TimeOfName(f) == (CHOOSE p \in TimedNames : p[1] = f)[2]

\* the offset in seconds, read off the table the offsets were built from
OffsetSeconds == CHOOSE t \in OffsetTimes : ToStamp(t) = offset

Ascending(q, lo, hi) ==
    \A i \in lo..(hi - 1) : TimeOfName(q[i]) <= TimeOfName(q[i + 1])

\* C7: the list returned holds the input names that carry a time field, each
\* as often as in the input, first those at or after the offset in ascending
\* time, then those before the offset in ascending time; the times are
\* non-decreasing in (time - offset) mod 86400, and plainly ascending when no
\* time is at or after the offset.
C7_CircularOrder ==
    pcSort = "done" =>
        /\ \A f \in FilePool :
              Count(sorted_files, f) = IF Carries(f) THEN Count(files, f) ELSE 0
        /\ \A i \in 1..Len(sorted_files) : sorted_files[i] \in FilePool
        /\ \E j \in 0..Len(sorted_files) :
              /\ \A i \in 1..j : TimeOfName(sorted_files[i]) >= OffsetSeconds
              /\ \A i \in (j + 1)..Len(sorted_files) :
                    TimeOfName(sorted_files[i]) < OffsetSeconds
              /\ Ascending(sorted_files, 1, j)
              /\ Ascending(sorted_files, j + 1, Len(sorted_files))
        /\ \A i \in 1..(Len(sorted_files) - 1) :
              (TimeOfName(sorted_files[i]) - OffsetSeconds) % 86400
                  <= (TimeOfName(sorted_files[i + 1]) - OffsetSeconds) % 86400
        /\ (\A i \in 1..Len(sorted_files) :
                TimeOfName(sorted_files[i]) < OffsetSeconds)
              => Ascending(sorted_files, 1, Len(sorted_files))

\* three names listed, the middle one without a time field, the first
\* before the offset and the last at the offset: the last is returned first
C7_Witness ==
    /\ pcSort = "done"
    /\ Len(files) = 3
    /\ ~Carries(files[2])
    /\ \E z \in OtherZeros : \E t \in OtherTimes : files[1] = ScriptName(z, t)
    /\ sorted_files = <<files[3], files[1]>>
    /\ TimeOfName(files[3]) = OffsetSeconds
    /\ TimeOfName(files[1]) < OffsetSeconds

\* --------------------------------------------------- compute_snr claims
InSomeLabel(t) ==
    \E i \in 1..Len(burst_labels) :
        burst_labels[i].start_idx <= t /\ t <= burst_labels[i].end_idx

\* C10: a time index is averaged into signal_mean exactly when it lies in
\* start_idx..end_idx of some label, and into noise_mean otherwise.
C10_MaskMatchesLabels ==
    pcSnr = "done" =>
        \A t \in 0..(n_times - 1) :
            /\ t \in inside_idx <=> InSomeLabel(t)
            /\ t \in outside_idx <=> ~InSomeLabel(t)

\* what does hold: the two index sets partition the time axis
C10_Partition ==
    pcSnr = "done" =>
        /\ inside_idx \cup outside_idx = 0..(n_times - 1)
        /\ inside_idx \cap outside_idx = {}

====
